---- MODULE Spec2Model ----
(***************************************************************************)
(* A model of the per-cycle orchestration engine of the trading bot:       *)
(* the control loop (CryptoBot.run / process_pair), the trading engine     *)
(* (TradingEngine.check_signals / execute_trades), the emergency kill      *)
(* switch, the health monitor and the database connection pool.            *)
(***************************************************************************)
EXTENDS Integers, Sequences, FiniteSets, TLC

VARIABLES
    AUTO_TRADING,          \* Config.AUTO_TRADING: "unset" (no such attribute), "True", "False"
    api_clients,           \* CryptoBot.api_clients: the exchanges that have a client
    notification_manager,  \* EmergencyKillSwitch.notification_manager is not None
    talib,                 \* the TA-Lib import succeeded
    running,               \* CryptoBot.running
    loop_pc,               \* position of CryptoBot.run: "top", "gather", "sleep", "exited"
    tick,                  \* number of fan-outs done so far
    tasks,                 \* process_pair tasks scheduled on the event loop, in order
    task_pc,               \* position of the running (head) task: "fetch", "execute",
                           \* and, where the fetch is followed step by step,
                           \* "cache_read", "generated", "saving", "saved",
                           \* "rereading", "fetched"
    signals,               \* the head task's local `signals`
    fanout,                \* symbols fanned out by the tick in progress
    pair_data,             \* DisplayManager.pair_data: the symbols that have an entry
    outcome,               \* how each task of the tick in progress ended, or "pending"
    active_trades,         \* TradingEngine.active_trades
    trading_disabled,      \* EmergencyKillSwitch.trading_disabled
    kill_pc,               \* position of execute_emergency_exit: "idle", "send_message"
    kill_pre,              \* active_trades / trading_disabled when the pending call began
    api_failures,          \* HealthMonitor.api_failures
    pair_blacklist,        \* HealthMonitor.pair_blacklist
    blacklist_events,      \* per instrument, how often its blacklisting was logged
    max_connections,       \* DatabaseConnectionPool.max_connections
    active_connections,    \* DatabaseConnectionPool.active_connections: connections created
    pool,                  \* DatabaseConnectionPool.pool: the queue of idle connections
    client_pc,             \* each pool user: "idle", "waiting", "saving", "holding"
    client_conn,           \* the connection each pool user holds, or NoConn
    waited,                \* how long each waiting user has been inside pool.get
    loop_conns,            \* the connections the control loop's thread holds
    freshness,             \* the head task's freshness verdict: "fresh", "stale", "none"
    evaluated,             \* the strategies the head task's check_signals evaluated
    data_len,              \* len(data) of the head task once its fetch has returned
    db_failures,           \* HealthMonitor.db_failures
    last_successful_cycle, \* HealthMonitor.last_successful_cycle, in seconds
    warned,                \* check_process_health has logged its warning
    now,                   \* time.time(), in seconds since construction
    candles,               \* the rows of the candles table
    save_args,             \* the arguments of the last save_candle_data call
    frame,                 \* the series last given to the strategies' get_indicators
    enriched,              \* what get_indicators returned for it, per strategy
    fresh_call,            \* the arguments of the last validate_data_freshness call
    fresh_report,          \* the dict it returned
    log_messages,          \* DisplayManager.log_messages
    log_calls,             \* the number of add_log calls so far
    query_call,            \* the arguments of the last get_candle_data call
    query_result,          \* the rows it returned, in the frame's order
    ret                    \* the last operation that ran and how it ended

vars == <<AUTO_TRADING, api_clients, notification_manager, talib, running, loop_pc,
          tick, tasks, task_pc, signals, fanout, outcome, pair_data,
          active_trades, trading_disabled, kill_pc, kill_pre, api_failures, pair_blacklist,
          blacklist_events,
          max_connections, active_connections, pool, client_pc, client_conn, waited,
          loop_conns, freshness, evaluated, data_len, db_failures, last_successful_cycle,
          warned, now,
          candles, save_args, frame, enriched,
          fresh_call, fresh_report, log_messages, log_calls, query_call, query_result,
          ret>>

configVars == <<api_clients, notification_manager, talib>>
loopVars   == <<running, loop_pc, tick, tasks, task_pc, signals, fanout, outcome,
                pair_data, freshness, evaluated, data_len>>
killVars   == <<trading_disabled, kill_pc, kill_pre>>
healthVars == <<api_failures, pair_blacklist, blacklist_events>>
poolVars   == <<max_connections, active_connections, pool, client_pc, client_conn, waited,
                loop_conns>>
monitorVars == <<db_failures, last_successful_cycle, warned, now>>
storeVars  == <<candles, save_args>>
\* state of the components exercised on their own
strategyVars == <<frame, enriched>>
freshVars  == <<fresh_call, fresh_report>>
logVars    == <<log_messages, log_calls>>
queryVars  == <<query_call, query_result>>
unitVars   == <<strategyVars, freshVars, logVars, queryVars>>
\* what the control loop, the engine and the kill switch never write
sideVars   == <<poolVars, storeVars, monitorVars, unitVars>>
botVars    == <<AUTO_TRADING, configVars, loopVars, active_trades, killVars, healthVars,
                monitorVars, storeVars, unitVars>>

-----------------------------------------------------------------------------
(* Bounds of the model *)
NumPairs    == 2      \* instruments traded
MaxTicks    == 2      \* fan-outs explored
MaxFailures == 6      \* cap of a failure counter
NumClients  == 4      \* concurrent users of the connection pool
MaxConns    == 4      \* largest max_connections explored
TimeoutTicks == 2     \* the pool's timeout, in clock ticks
MaxIntervals == 6     \* wall-clock time explored, in refresh intervals
MaxDbFailures == 1    \* cap of the db-failure counter
MaxLogCalls == 12     \* add_log calls explored
MaxLateFailures == 8  \* cap of a failure counter where late failures are followed

(* Program constants *)
MIN_CANDLES_FOR_TRADING == 200
ema200_period           == 200
cci_long_level          == 100
cci_short_level         == -100
BlacklistThreshold      == 5
PrewarmCount            == 3
REFRESH_INTERVAL        == 15
WarnFactor              == 5
MAX_DATA_AGE_SECONDS    == 300
LogLimit                == 10

SELECTED_EXCHANGE == "coindcx"
ACTIVE_EXCHANGES  == {"coindcx"}
\* Config.SUPPORTED_EXCHANGES
Exchanges         == {"coindcx", "bitget", "binance"}

\* Config.DEFAULT_TRADING_PAIRS, sorted as update_trading_pairs sorts them
SortedSymbols == <<"B-ADA_USDT", "B-BNB_USDT", "B-BTC_USDT", "B-DOGE_USDT">>
pairs         == SubSeq(SortedSymbols, 1, NumPairs)
Symbols       == {pairs[i] : i \in 1..Len(pairs)}

\* get_strategy knows two strategies; both are in Config.ACTIVE_STRATEGIES
strategies    == <<"main_strategy", "trf_strategy">>
StrategyNames == {strategies[i] : i \in 1..Len(strategies)}

\* what a fetch can return: series lengths and the latest row's values
DataLens == {0, 199, 200}
Closes   == {2, 3, 4}
Emas     == {3}
Ccis     == {-101, -100, 100, 101}

Keys    == Exchanges \X StrategyNames \X Symbols
NoTrade == [entry_price |-> 0, direction |-> "None"]
NoSignals == [signal_type |-> "None", pair |-> "", price |-> 0,
              trigger_strategy |-> "", exchange |-> ""]
Ret(op, val) == [op |-> op, val |-> val]
Min(a, b) == IF a < b THEN a ELSE b

Alive == loop_pc # "exited"
NoSave == [df |-> << >>, pair |-> "", interval |-> ""]
NoFrame == [len |-> 0, close |-> 0, ema_in |-> 0, cci_in |-> 0]
NoQuery == [pair |-> "", limit |-> 0, interval |-> ""]
NoLen   == -1

-----------------------------------------------------------------------------
(* Strategy framework *)

\* EMACCIStrategy.get_indicators: the frame, with ema200/cci1 when they are computed
EMACCI_get_indicators(df) ==
    IF df.len = 0 \/ ~talib
      THEN [len |-> df.len, close |-> df.close, has_ind |-> FALSE, ema200 |-> 0, cci1 |-> 0]
      ELSE IF df.len < ema200_period
        THEN [len |-> df.len, close |-> df.close, has_ind |-> FALSE, ema200 |-> 0, cci1 |-> 0]
        ELSE [len |-> df.len, close |-> df.close, has_ind |-> TRUE,
              ema200 |-> df.ema_in, cci1 |-> df.cci_in]

\* TRFStrategy.get_indicators: the frame unchanged
TRF_get_indicators(df) ==
    [len |-> df.len, close |-> df.close, has_ind |-> FALSE, ema200 |-> 0, cci1 |-> 0]

\* a plausible slip: the pd.isna guard is missing, and latest_row['ema200']
\* raises KeyError for a row without the column
EMACCI_check_signals_unguarded(row) ==
    IF ~row.has_ind THEN "raise"
    ELSE IF row.close > row.ema200 /\ row.cci1 > cci_long_level THEN "long"
    ELSE IF row.close < row.ema200 /\ row.cci1 < cci_short_level THEN "short"
    ELSE "None"

\* EMACCIStrategy.check_signals on the latest row
EMACCI_check_signals(row) ==
    IF ~row.has_ind THEN "None"
    ELSE IF row.close > row.ema200 /\ row.cci1 > cci_long_level THEN "long"
    ELSE IF row.close < row.ema200 /\ row.cci1 < cci_short_level THEN "short"
    ELSE "None"

\* TRFStrategy.check_signals
TRF_check_signals(row) == "None"

get_indicators(name, df) ==
    IF name = "main_strategy" THEN EMACCI_get_indicators(df) ELSE TRF_get_indicators(df)

strategy_check_signals(name, row) ==
    IF name = "main_strategy" THEN EMACCI_check_signals(row) ELSE TRF_check_signals(row)

\* TradingEngine.process_data: one enriched frame per strategy
process_data(df) == [name \in StrategyNames |-> get_indicators(name, df)]

\* TradingEngine.check_signals: the first strategy, in order, that signals
RECURSIVE check_signals_from(_, _, _)
check_signals_from(i, strategy_dfs, symbol) ==
    IF i > Len(strategies) THEN NoSignals
    ELSE LET name == strategies[i]
             df   == strategy_dfs[name]
             st   == IF df.len > 0 THEN strategy_check_signals(name, df) ELSE "None"
         IN IF st # "None"
              THEN [signal_type |-> st, pair |-> symbol, price |-> df.close,
                    trigger_strategy |-> name, exchange |-> ""]
              ELSE check_signals_from(i + 1, strategy_dfs, symbol)

check_signals(strategy_dfs, symbol) == check_signals_from(1, strategy_dfs, symbol)

\* a plausible slip: the `break` is missing
RECURSIVE strategies_evaluated_no_break(_, _)
strategies_evaluated_no_break(i, strategy_dfs) ==
    IF i > Len(strategies) THEN << >>
    ELSE LET name == strategies[i]
             df   == strategy_dfs[name]
         IN IF df.len = 0
              THEN strategies_evaluated_no_break(i + 1, strategy_dfs)
              ELSE <<name>> \o strategies_evaluated_no_break(i + 1, strategy_dfs)

\* the strategies whose check_signals the loop of TradingEngine.check_signals
\* calls, in the order of the calls: none for an empty frame, none after the
\* `break`
RECURSIVE strategies_evaluated_from(_, _)
strategies_evaluated_from(i, strategy_dfs) ==
    IF i > Len(strategies) THEN << >>
    ELSE LET name == strategies[i]
             df   == strategy_dfs[name]
         IN IF df.len = 0
              THEN strategies_evaluated_from(i + 1, strategy_dfs)
              ELSE IF strategy_check_signals(name, df) # "None"
                THEN <<name>>
                ELSE <<name>> \o strategies_evaluated_from(i + 1, strategy_dfs)

strategies_evaluated(strategy_dfs) == strategies_evaluated_from(1, strategy_dfs)

\* the series a caller may hand to a strategy: empty, shorter than the longest
\* lookback, and long enough
FrameLens == {0, 1, 199, 200}

\* every strategy's get_indicators called on a series
GetIndicators ==
    /\ \E len \in FrameLens, close \in Closes, ema_in \in Emas, cci_in \in Ccis :
         LET df == [len |-> len, close |-> close, ema_in |-> ema_in, cci_in |-> cci_in]
         IN /\ frame' = df
            /\ enriched' = [name \in StrategyNames |-> get_indicators(name, df)]
    /\ evaluated' = << >>
    /\ data_len' = data_len
    /\ ret' = Ret("get_indicators", "")
    /\ UNCHANGED <<poolVars, storeVars, monitorVars, AUTO_TRADING, configVars, running,
                   loop_pc, tick, tasks, task_pc, signals, fanout, outcome, pair_data,
                   freshness, active_trades, killVars, healthVars, freshVars, logVars,
                   queryVars>>

\* a strategy's check_signals called on the latest row of its enriched series
StrategyCheckSignals(name) ==
    /\ enriched[name].len > 0
    /\ evaluated' = <<name>>
    /\ data_len' = data_len
    /\ ret' = Ret("strategy_check_signals", strategy_check_signals(name, enriched[name]))
    /\ UNCHANGED <<sideVars, AUTO_TRADING, configVars, running,
                   loop_pc, tick, tasks, task_pc, signals, fanout, outcome, pair_data,
                   freshness, active_trades, killVars, healthVars>>

-----------------------------------------------------------------------------
(* Trading engine *)

SignalKey(s) == <<s.exchange, s.trigger_strategy, s.pair>>

\* a plausible slip: the membership test is dropped and the entry is overwritten
execute_trades_overwrite(trades, auto, s) ==
    IF auto = "unset" THEN [val |-> "raise", trades |-> trades]
    ELSE IF auto = "False" THEN [val |-> "False", trades |-> trades]
    ELSE [val |-> "True",
          trades |-> [trades EXCEPT ![SignalKey(s)] =
                         [entry_price |-> s.price, direction |-> s.signal_type]]]

\* a plausible slip: the AUTO_TRADING test is dropped
execute_trades_always(trades, auto, s) ==
    IF trades[SignalKey(s)] = NoTrade
      THEN [val |-> "True",
            trades |-> [trades EXCEPT ![SignalKey(s)] =
                           [entry_price |-> s.price, direction |-> s.signal_type]]]
      ELSE [val |-> "False", trades |-> trades]

\* a plausible slip: a signal for an instrument that holds a trade closes it
execute_trades_closes(trades, auto, s) ==
    IF auto = "unset" THEN [val |-> "raise", trades |-> trades]
    ELSE IF auto = "False" THEN [val |-> "False", trades |-> trades]
    ELSE IF trades[SignalKey(s)] = NoTrade
      THEN [val |-> "True",
            trades |-> [trades EXCEPT ![SignalKey(s)] =
                           [entry_price |-> s.price, direction |-> s.signal_type]]]
      ELSE [val |-> "False", trades |-> [trades EXCEPT ![SignalKey(s)] = NoTrade]]

\* TradingEngine.execute_trades: the value returned (or "raise" for the
\* AttributeError of a Config without AUTO_TRADING) and the map afterwards
execute_trades(trades, auto, s) ==
    IF auto = "unset" THEN [val |-> "raise", trades |-> trades]
    ELSE IF auto = "False" THEN [val |-> "False", trades |-> trades]
    ELSE IF trades[SignalKey(s)] = NoTrade
      THEN [val |-> "True",
            trades |-> [trades EXCEPT ![SignalKey(s)] =
                           [entry_price |-> s.price, direction |-> s.signal_type]]]
      ELSE [val |-> "False", trades |-> trades]

-----------------------------------------------------------------------------
(* Health monitor *)

is_pair_blacklisted(bl, p) == p \in bl

\* HealthMonitor.blacklist_pair
blacklist_pair(bl, p) == IF p \notin bl THEN bl \cup {p} ELSE bl

\* a plausible slip: the warning is logged outside the `if`
blacklist_pair_logs_always(bl, p) == TRUE

\* HealthMonitor.blacklist_pair: whether it logs "Blacklisting pair ..."
blacklist_pair_logs(bl, p) == p \notin bl

\* a plausible slip: >= instead of >
record_api_failure_ge(fails, bl, p) ==
    LET f == [fails EXCEPT ![p] = fails[p] + 1]
    IN [api_failures |-> f,
        pair_blacklist |-> IF f[p] >= BlacklistThreshold THEN blacklist_pair(bl, p) ELSE bl]

\* HealthMonitor.record_api_failure
record_api_failure(fails, bl, p) ==
    LET f == [fails EXCEPT ![p] = fails[p] + 1]
    IN [api_failures |-> f,
        pair_blacklist |-> IF f[p] > BlacklistThreshold THEN blacklist_pair(bl, p) ELSE bl]

\* HealthMonitor.record_api_failure: whether its blacklist_pair call, if any, logs
record_api_failure_logs(fails, bl, p) ==
    fails[p] + 1 > BlacklistThreshold /\ blacklist_pair_logs(bl, p)

\* a synchronous call on the event loop's thread: it runs between task runs; the
\* counter is followed up to `cap`
RecordApiFailureUpTo(p, cap) ==
    /\ Alive /\ (tasks = << >> \/ task_pc = "fetch")
    /\ api_failures[p] < cap
    /\ LET r == record_api_failure(api_failures, pair_blacklist, p)
       IN /\ api_failures' = r.api_failures
          /\ pair_blacklist' = r.pair_blacklist
    /\ blacklist_events' =
          IF record_api_failure_logs(api_failures, pair_blacklist, p)
            THEN [blacklist_events EXCEPT ![p] = @ + 1]
            ELSE blacklist_events
    /\ ret' = Ret("record_api_failure", "")
    /\ UNCHANGED <<sideVars, AUTO_TRADING, configVars, loopVars, active_trades, killVars>>

RecordApiFailure(p) == RecordApiFailureUpTo(p, MaxFailures)

\* HealthMonitor.record_db_failure
record_db_failure(n) == n + 1

HealthRecord == [api_failures |-> api_failures, db_failures |-> db_failures,
                 last_successful_cycle |-> last_successful_cycle,
                 pair_blacklist |-> pair_blacklist]

\* a plausible slip: a successful cycle clears the failure counters
record_successful_cycle_resets(h, t) ==
    [h EXCEPT !.last_successful_cycle = t,
              !.api_failures = [p \in Symbols |-> 0],
              !.db_failures = 0]

\* HealthMonitor.record_successful_cycle at time t
record_successful_cycle(h, t) == [h EXCEPT !.last_successful_cycle = t]

\* a plausible slip: the periodic re-enabling is implemented
check_blacklist_rehabilitates(bl) == {}

\* HealthMonitor.check_blacklist: `pass`
check_blacklist(bl) == bl

\* HealthMonitor.check_process_health at time t: whether it logs the warning
check_process_health(t, last, refresh_interval) ==
    t - last > refresh_interval * WarnFactor

\* the health monitor's other methods, called like record_api_failure
BetweenTaskRuns == tasks = << >> \/ task_pc = "fetch"

RecordDbFailure ==
    /\ Alive /\ BetweenTaskRuns
    /\ db_failures < MaxDbFailures
    /\ db_failures' = record_db_failure(db_failures)
    /\ ret' = Ret("record_db_failure", "")
    /\ UNCHANGED <<poolVars, storeVars, unitVars, AUTO_TRADING, configVars, loopVars,
                   active_trades,
                   killVars, healthVars, last_successful_cycle, warned, now>>

RecordSuccessfulCycle ==
    /\ Alive /\ BetweenTaskRuns
    /\ LET h == record_successful_cycle(HealthRecord, now)
       IN /\ api_failures' = h.api_failures
          /\ db_failures' = h.db_failures
          /\ last_successful_cycle' = h.last_successful_cycle
          /\ pair_blacklist' = h.pair_blacklist
    /\ ret' = Ret("record_successful_cycle", "")
    /\ UNCHANGED <<blacklist_events, poolVars, storeVars, unitVars, AUTO_TRADING,
                   configVars, loopVars, active_trades,
                   killVars, warned, now>>

\* blacklist_pair called on its own
BlacklistPair(p) ==
    /\ Alive /\ BetweenTaskRuns
    /\ pair_blacklist' = blacklist_pair(pair_blacklist, p)
    /\ blacklist_events' =
          IF blacklist_pair_logs(pair_blacklist, p)
            THEN [blacklist_events EXCEPT ![p] = @ + 1]
            ELSE blacklist_events
    /\ ret' = Ret("blacklist_pair", "")
    /\ UNCHANGED <<sideVars, AUTO_TRADING, configVars, loopVars, active_trades, killVars,
                   api_failures>>

CheckBlacklist ==
    /\ Alive /\ BetweenTaskRuns
    /\ pair_blacklist' = check_blacklist(pair_blacklist)
    /\ ret' = Ret("check_blacklist", "")
    /\ UNCHANGED <<sideVars, AUTO_TRADING, configVars, loopVars, active_trades, killVars,
                   api_failures, blacklist_events>>

\* health_monitor.bot is never set, so the warning goes to the log only
CheckProcessHealth ==
    /\ Alive /\ BetweenTaskRuns
    /\ LET w == check_process_health(now, last_successful_cycle, REFRESH_INTERVAL)
       IN /\ warned' = (warned \/ w)
          /\ ret' = Ret("check_process_health", IF w THEN "warning" ELSE "quiet")
    /\ UNCHANGED <<poolVars, storeVars, unitVars, AUTO_TRADING, configVars, loopVars,
                   active_trades,
                   killVars, healthVars, db_failures, last_successful_cycle, now>>

\* wall-clock time goes on by one refresh interval
TimePasses ==
    /\ now < MaxIntervals * REFRESH_INTERVAL
    /\ now' = now + REFRESH_INTERVAL
    /\ ret' = Ret("time", "")
    /\ UNCHANGED <<poolVars, storeVars, unitVars, AUTO_TRADING, configVars, loopVars,
                   active_trades,
                   killVars, healthVars, db_failures, last_successful_cycle, warned>>

-----------------------------------------------------------------------------
(* Dashboard log: DisplayManager.add_log *)

LogTexts == {"a", "b"}

\* f"[{datetime.now().strftime('%H:%M:%S')}] {message}" at time t
LogEntry(t, message) == [time |-> t, message |-> message]

\* a plausible slip: the entry is appended and the last 10 are kept
add_log_append(log, t, message) ==
    LET all == Append(log, LogEntry(t, message))
    IN SubSeq(all, Len(all) - Min(Len(all), LogLimit) + 1, Len(all))

\* DisplayManager.add_log: insert(0, entry), then log_messages[:10]
add_log(log, t, message) ==
    LET all == <<LogEntry(t, message)>> \o log
    IN SubSeq(all, 1, Min(Len(all), LogLimit))

AddLog ==
    /\ log_calls < MaxLogCalls
    /\ \E message \in LogTexts :
         /\ log_messages' = add_log(log_messages, now, message)
         /\ ret' = Ret("add_log", message)
    /\ log_calls' = log_calls + 1
    /\ UNCHANGED <<poolVars, storeVars, monitorVars, strategyVars, freshVars, queryVars,
                   AUTO_TRADING, configVars, loopVars, active_trades, killVars, healthVars>>

-----------------------------------------------------------------------------
(* Configuration: the auto-trading enable flag is set from outside *)

SetAutoTrading(v) ==
    /\ Alive
    /\ AUTO_TRADING # v
    /\ AUTO_TRADING' = v
    /\ ret' = Ret("set_auto_trading", "")
    /\ UNCHANGED <<sideVars, configVars, loopVars, active_trades, killVars, healthVars>>

-----------------------------------------------------------------------------
(* Control loop: CryptoBot.run *)

\* the list comprehension of run: the pairs that are not blacklisted, in order
active_pairs(bl) == SelectSeq(pairs, LAMBDA p : ~is_pair_blacklisted(bl, p))

\* a plausible slip: the tasks are started but not awaited
gather_not_awaited(ts) == TRUE

\* `await asyncio.gather(...)` returns when every task it started has ended
gather_returns(ts) == ts = << >>

\* one pass of `while self.running` up to the gather: the fan-out
RunTick ==
    /\ loop_pc = "top" /\ running
    /\ tick < MaxTicks
    /\ IF SELECTED_EXCHANGE \notin api_clients
         THEN /\ loop_pc' = "sleep"
              /\ UNCHANGED <<tick, tasks, task_pc, fanout, outcome>>
         ELSE /\ loop_pc' = "gather"
              /\ tick' = tick + 1
              /\ LET new == active_pairs(pair_blacklist)
                 IN /\ tasks' = tasks \o [i \in 1..Len(new) |->
                                            [symbol |-> new[i], tick |-> tick + 1]]
                    /\ fanout' = {new[i] : i \in 1..Len(new)}
              /\ outcome' = [p \in Symbols |-> "pending"]
              /\ task_pc' = "fetch"
    /\ ret' = Ret("run", "")
    /\ UNCHANGED <<sideVars, AUTO_TRADING, configVars, running, signals, freshness,
                   evaluated, data_len, pair_data, active_trades, killVars, healthVars>>

\* gather returns: the tick's tasks are over
GatherDone ==
    /\ loop_pc = "gather"
    /\ gather_returns(tasks)
    /\ loop_pc' = "sleep"
    /\ fanout' = {}
    /\ outcome' = [p \in Symbols |-> "pending"]
    /\ ret' = Ret("run", "")
    /\ UNCHANGED <<sideVars, AUTO_TRADING, configVars, running, tick, tasks, task_pc,
                   signals, freshness, evaluated, data_len, pair_data, active_trades,
                   killVars,
                   healthVars>>

SleepDone ==
    /\ loop_pc = "sleep"
    /\ loop_pc' = "top"
    /\ ret' = Ret("run", "")
    /\ UNCHANGED <<sideVars, AUTO_TRADING, configVars, running, tick, tasks, task_pc,
                   signals, freshness, evaluated, data_len, fanout, outcome, pair_data,
                   active_trades, killVars, healthVars>>

\* asyncio.sleep(Config.REFRESH_INTERVAL) is where the loop spends its time
SleepLong == loop_pc = "sleep" /\ TimePasses

-----------------------------------------------------------------------------
(* One instrument's task: CryptoBot.process_pair *)

\* the head task ends; the next scheduled task, if any, starts at its fetch
EndTask(how) ==
    /\ tasks' = Tail(tasks)
    /\ outcome' = [outcome EXCEPT ![Head(tasks).symbol] = how]
    /\ task_pc' = "fetch"
    /\ signals' = NoSignals
    /\ freshness' = "none"
    /\ evaluated' = << >>
    /\ data_len' = NoLen

\* a plausible slip: no try/except, the exception leaves the task and, through
\* gather, run
task_exception_propagates ==
    /\ tasks' = << >>
    /\ outcome' = outcome
    /\ task_pc' = "fetch"
    /\ signals' = NoSignals
    /\ freshness' = "none"
    /\ evaluated' = << >>
    /\ data_len' = NoLen
    /\ loop_pc' = "exited"
    /\ running' = running

\* `except Exception as e: logging.error(...)`: the task ends, nothing else
task_exception ==
    /\ EndTask("raise")
    /\ loop_pc' = loop_pc
    /\ running' = running

\* DisplayManager.update_pair_data: Config.DISPLAY_STRATEGY is always a key of
\* strategy_dfs, so the symbol gets an entry
update_pair_data(pd, symbol) == pd \cup {symbol}

\* what the first get_candle_data of a fetch can find: no row, or rows whose
\* newest candle has some age in seconds
CachedReads == {[empty |-> TRUE, age |-> 0]} \cup
               {[empty |-> FALSE, age |-> a] : a \in {100, 300, 301}}

\* a plausible slip: < instead of <=
validate_data_freshness_strict(age, max_age_seconds) == age < max_age_seconds

\* validate_data_freshness: is_fresh
validate_data_freshness(age, max_age_seconds) == age <= max_age_seconds

\* max_age_seconds=None
NoneAge == -1
NoCall   == [enabled |-> TRUE, data |-> << >>, current_time |-> 0,
             max_age_seconds |-> NoneAge]
NoReport == [is_fresh |-> FALSE, message |-> "", data_age_seconds |-> 0]

\* validate_data_freshness(data, pair_symbol, max_age_seconds) called at
\* current_time, `data` being the open_time column in seconds: the dict returned
freshness_report(enabled, data, current_time, max_age_seconds) ==
    IF ~enabled
      THEN [is_fresh |-> TRUE, message |-> "Validation disabled", data_age_seconds |-> 0]
      ELSE LET max_age == IF max_age_seconds = NoneAge
                            THEN MAX_DATA_AGE_SECONDS ELSE max_age_seconds
           IN IF data = << >>
                THEN [is_fresh |-> FALSE, message |-> "No data available",
                      data_age_seconds |-> 0]
                ELSE LET latest_timestamp == data[Len(data)]
                         data_age_seconds == current_time - latest_timestamp
                         is_fresh == validate_data_freshness(data_age_seconds, max_age)
                     IN [is_fresh |-> is_fresh,
                         message |-> IF is_fresh THEN "Data is old" ELSE "Data is old (Stale)",
                         data_age_seconds |-> data_age_seconds]

\* the open_time columns get_candle_data can return (ascending), the wall-clock
\* times of a call and the max_age_seconds arguments explored
CandleTimes   == {0, 300}
OpenTimeCols  == {<< >>} \cup {<<t>> : t \in CandleTimes} \cup {<<0, 300>>}
CallTimes     == {100, 300, 301, 400, 600, 601}
MaxAgeArgs    == {NoneAge, 0, 100}

\* a call of validate_data_freshness
ValidateDataFreshness ==
    /\ \E enabled \in BOOLEAN, data \in OpenTimeCols, t \in CallTimes, m \in MaxAgeArgs :
         /\ fresh_call' = [enabled |-> enabled, data |-> data, current_time |-> t,
                           max_age_seconds |-> m]
         /\ fresh_report' = freshness_report(enabled, data, t, m)
    /\ ret' = Ret("validate_data_freshness", "")
    /\ UNCHANGED <<poolVars, storeVars, monitorVars, strategyVars, logVars, queryVars,
                   AUTO_TRADING, configVars, loopVars, active_trades, killVars, healthVars>>

\* what get_historical_data makes of the cache: "fresh", and the cached frame is
\* returned; "stale", and a series is generated, saved, and the cache read
\* again; "none" with an empty cache: the same without a freshness check
cache_verdict(cached) ==
    IF cached.empty THEN "none"
    ELSE IF validate_data_freshness(cached.age, MAX_DATA_AGE_SECONDS) THEN "fresh"
    ELSE "stale"

\* a plausible slip: the awaits of process_pair suspend the task, which goes to
\* the back of the event loop's queue
after_await_yields(ts) == Tail(ts) \o <<Head(ts)>>

\* `await self.engine.process_data(...)`, `await self.engine.check_signals(...)`:
\* the awaited coroutine ends without suspending, so the task keeps running
after_await(ts) == ts

\* a plausible slip: only `data.empty` is tested
enough_candles_nonempty(len) == len # 0

\* process_pair goes on unless `data.empty or len(data) < MIN_CANDLES_FOR_TRADING`
enough_candles(len) == ~(len = 0 \/ len < MIN_CANDLES_FOR_TRADING)

\* process_pair from the frame get_historical_data returned to execute_trades:
\* a short frame ends the task; otherwise process_data, update_pair_data and
\* check_signals follow; `verdicts` is what the cache read can have reported
ProcessFrame(lens, verdicts) ==
    \E len \in lens :
      /\ IF ~enough_candles(len)
           THEN /\ EndTask("ok")
                /\ ret' = Ret("process_pair", "short_data")
                /\ UNCHANGED pair_data
           ELSE \E close \in Closes, ema_in \in Emas, cci_in \in Ccis :
                LET df     == [len |-> len, close |-> close,
                               ema_in |-> ema_in, cci_in |-> cci_in]
                    symbol == Head(tasks).symbol
                    dfs    == process_data(df)
                    s      == check_signals(dfs, symbol)
                IN /\ pair_data' = update_pair_data(pair_data, symbol)
                   /\ IF s # NoSignals
                        THEN /\ signals' = [s EXCEPT !.exchange = SELECTED_EXCHANGE]
                             /\ evaluated' = strategies_evaluated(dfs)
                             /\ data_len' = len
                             /\ \E v \in verdicts : freshness' = v
                             /\ task_pc' = "execute"
                             /\ ret' = Ret("check_signals", "signal")
                             /\ tasks' = after_await(tasks)
                             /\ UNCHANGED outcome
                        ELSE /\ EndTask("ok")
                             /\ ret' = Ret("check_signals", "None")
      /\ UNCHANGED <<loop_pc, running>>

\* process_pair up to execute_trades, which runs without suspending:
\* get_historical_data first reads the cache and so needs a pool connection:
\* with none to be had within the timeout, get_candle_data raises; otherwise it
\* raises or returns a frame (the connections it took are back in the pool)
ProcessPair ==
    /\ Alive /\ tasks # << >> /\ task_pc = "fetch"
    /\ IF pool = << >>
         THEN /\ task_exception
              /\ ret' = Ret("get_candle_data", "raise")
              /\ UNCHANGED pair_data
         ELSE \/ /\ task_exception
                 /\ ret' = Ret("get_historical_data", "raise")
                 /\ UNCHANGED pair_data
              \/ ProcessFrame(DataLens, {cache_verdict(cached) : cached \in CachedReads})
    /\ UNCHANGED <<sideVars, AUTO_TRADING, configVars, tick, fanout, active_trades,
                   killVars, healthVars>>

\* execute_trades(signals), inside the task's try
ExecuteTrades ==
    /\ Alive /\ tasks # << >> /\ task_pc = "execute"
    /\ LET r == execute_trades(active_trades, AUTO_TRADING, signals)
       IN /\ active_trades' = r.trades
          /\ ret' = Ret("execute_trades", r.val)
          /\ IF r.val = "raise"
               THEN task_exception
               ELSE EndTask("ok") /\ UNCHANGED <<loop_pc, running>>
    /\ UNCHANGED <<sideVars, AUTO_TRADING, configVars, tick, fanout, pair_data, killVars,
                   healthVars>>

-----------------------------------------------------------------------------
(* Shutdown: the signal handler sets running and raises SystemExit *)

Shutdown ==
    /\ Alive
    /\ running' = FALSE
    /\ loop_pc' = "exited"
    /\ tasks' = << >>
    /\ task_pc' = "fetch"
    /\ signals' = NoSignals
    /\ freshness' = "none"
    /\ evaluated' = << >>
    /\ data_len' = NoLen
    /\ fanout' = {}
    /\ outcome' = [p \in Symbols |-> "pending"]
    /\ ret' = Ret("shutdown", "")
    /\ UNCHANGED <<sideVars, AUTO_TRADING, configVars, tick, pair_data, active_trades,
                   killVars, healthVars>>

-----------------------------------------------------------------------------
(* Emergency kill switch *)

EmptyTrades == [k \in Keys |-> NoTrade]
NoPre       == [trades |-> EmptyTrades, disabled |-> FALSE]

\* a coroutine of the same event loop starts only while no task is mid-run
AtYieldPoint == tasks = << >> \/ task_pc = "fetch"

\* execute_emergency_exit up to its await (or its return, without a notifier)
EmergencyExit ==
    /\ Alive /\ kill_pc = "idle" /\ AtYieldPoint
    /\ trading_disabled' = TRUE
    /\ active_trades' = EmptyTrades
    /\ IF notification_manager
         THEN /\ kill_pc' = "send_message"
              /\ kill_pre' = [trades |-> active_trades, disabled |-> trading_disabled]
              /\ ret' = Ret("execute_emergency_exit", "await")
         ELSE /\ kill_pc' = "idle"
              /\ kill_pre' = NoPre
              /\ ret' = Ret("execute_emergency_exit", "success")
    /\ UNCHANGED <<sideVars, AUTO_TRADING, configVars, loopVars, healthVars>>

\* send_message returns: {'success': True}
NotifyReturns ==
    /\ Alive /\ kill_pc = "send_message" /\ AtYieldPoint
    /\ kill_pc' = "idle"
    /\ kill_pre' = NoPre
    /\ ret' = Ret("execute_emergency_exit", "success")
    /\ UNCHANGED <<sideVars, AUTO_TRADING, configVars, loopVars, active_trades,
                   trading_disabled, healthVars>>

\* send_message raises: the exception leaves execute_emergency_exit
NotifyRaises ==
    /\ Alive /\ kill_pc = "send_message" /\ AtYieldPoint
    /\ kill_pc' = "idle"
    /\ kill_pre' = NoPre
    /\ ret' = Ret("execute_emergency_exit", "raise")
    /\ UNCHANGED <<sideVars, AUTO_TRADING, configVars, loopVars, active_trades,
                   trading_disabled, healthVars>>


-----------------------------------------------------------------------------
(* Database connection pool: DatabaseConnectionPool *)

Clients == 1..NumClients
NoConn  == 0
Held    == {c \in Clients : client_conn[c] # NoConn}

\* a plausible slip: the pool is filled up to its maximum
prewarm_to_max(maxc) == maxc

\* _initialize_pool: the number of connections it tries to create
prewarm(maxc) == Min(PrewarmCount, maxc)

\* a plausible slip: pool.get(block=False)
get_connection_nowait(q, elapsed) ==
    IF q # << >> THEN "conn" ELSE "raise"

\* get_connection, i.e. pool.get(block=True, timeout=self.timeout), looked at
\* after `elapsed` of waiting: it takes a queued connection when there is one,
\* raises once the timeout has passed with the queue empty, and blocks otherwise
get_connection(q, elapsed) ==
    IF q # << >> THEN "conn"
    ELSE IF elapsed >= TimeoutTicks THEN "raise"
    ELSE "block"

\* a user calls get_connection
GetConnection(c) ==
    /\ client_pc[c] = "idle"
    /\ LET r == get_connection(pool, 0)
       IN IF r = "conn"
            THEN /\ client_conn' = [client_conn EXCEPT ![c] = Head(pool)]
                 /\ pool' = Tail(pool)
                 /\ client_pc' = [client_pc EXCEPT ![c] = "holding"]
                 /\ ret' = Ret("get_connection", "conn")
            ELSE IF r = "block"
            THEN /\ client_pc' = [client_pc EXCEPT ![c] = "waiting"]
                 /\ ret' = Ret("get_connection", "block")
                 /\ UNCHANGED <<client_conn, pool>>
            ELSE /\ ret' = Ret("get_connection", "raise")
                 /\ UNCHANGED <<client_conn, pool, client_pc>>
    /\ waited' = [waited EXCEPT ![c] = 0]
    /\ UNCHANGED <<max_connections, active_connections, loop_conns, botVars>>

\* a user blocked inside get_connection gets a connection or times out
GetConnectionResumes(c) ==
    /\ client_pc[c] = "waiting"
    /\ LET r == get_connection(pool, waited[c])
       IN /\ r # "block"
          /\ IF r = "conn"
               THEN /\ client_conn' = [client_conn EXCEPT ![c] = Head(pool)]
                    /\ pool' = Tail(pool)
                    /\ client_pc' = [client_pc EXCEPT ![c] = "holding"]
                    /\ ret' = Ret("get_connection", "conn")
               ELSE /\ client_pc' = [client_pc EXCEPT ![c] = "idle"]
                    /\ ret' = Ret("get_connection", "raise")
                    /\ UNCHANGED <<client_conn, pool>>
    /\ waited' = [waited EXCEPT ![c] = 0]
    /\ UNCHANGED <<max_connections, active_connections, loop_conns, botVars>>

\* return_connection(conn) with the connection the user holds
ReturnConnection(c) ==
    /\ client_pc[c] = "holding"
    /\ IF client_conn[c] # NoConn
         THEN pool' = Append(pool, client_conn[c])
         ELSE pool' = pool
    /\ client_conn' = [client_conn EXCEPT ![c] = NoConn]
    /\ client_pc' = [client_pc EXCEPT ![c] = "idle"]
    /\ ret' = Ret("return_connection", "")
    /\ UNCHANGED <<max_connections, active_connections, loop_conns, waited, botVars>>

\* return_connection(conn): `if conn: self.pool.put(conn)`
return_connection(q, conn) == IF conn # NoConn THEN Append(q, conn) ELSE q

\* how the body of a `with get_connection_context()` can end
BodyEnds == {"normal", "raise"}

\* a plausible slip: no try/finally, the connection goes back only after a body
\* that ended normally
context_exit_no_finally(q, conn, how) ==
    IF how = "raise" THEN q ELSE return_connection(q, conn)

\* get_connection_context after its yield: `finally: self.return_connection(conn)`
context_exit(q, conn, how) == return_connection(q, conn)

\* the body of a user's `with get_connection_context()` ends
ContextExit(c) ==
    /\ client_pc[c] = "holding"
    /\ \E how \in BodyEnds :
         /\ pool' = context_exit(pool, client_conn[c], how)
         /\ ret' = Ret("get_connection_context", how)
    /\ client_conn' = [client_conn EXCEPT ![c] = NoConn]
    /\ client_pc' = [client_pc EXCEPT ![c] = "idle"]
    /\ UNCHANGED <<max_connections, active_connections, loop_conns, waited, botVars>>

\* inside pool.get: from get_connection itself, or from save_candle_data
Blocked(c) == client_pc[c] \in {"waiting", "saving"}

\* time passes for the users blocked inside pool.get
ClockTick ==
    /\ \E c \in Clients : Blocked(c) /\ waited[c] < TimeoutTicks
    /\ waited' = [c \in Clients |->
                    IF Blocked(c) /\ waited[c] < TimeoutTicks
                      THEN waited[c] + 1 ELSE waited[c]]
    /\ ret' = Ret("clock", "")
    /\ UNCHANGED <<max_connections, active_connections, loop_conns, pool, client_pc,
                   client_conn,
                   botVars>>

\* the pool after __init__ with `maxc`, `n` of the connections having been created
PoolConstructed(maxc, n) ==
    /\ max_connections = maxc
    /\ active_connections = n
    /\ pool = [i \in 1..n |-> i]
    /\ client_pc = [c \in Clients |-> "idle"]
    /\ client_conn = [c \in Clients |-> NoConn]
    /\ waited = [c \in Clients |-> 0]
    /\ loop_conns = << >>

-----------------------------------------------------------------------------
(* Candle store: DatabaseManager.save_candle_data *)

\* the instruments, intervals and candles a caller may save
StorePairs == {SortedSymbols[1], SortedSymbols[2]}
Intervals  == {"5m"}
OpenTimes  == {1, 2}
Ohlcv      == {1, 2}
DfRows     == [open_time : OpenTimes, ohlcv : Ohlcv]
Series     == UNION {[1..n -> DfRows] : n \in 0..2}

\* PRIMARY KEY (pair, interval, open_time)
CandleKey(r) == <<r.pair, r.interval, r.open_time>>

\* a plausible slip: INSERT OR IGNORE
insert_or_ignore(rows, r) ==
    IF \E x \in rows : CandleKey(x) = CandleKey(r) THEN rows ELSE rows \cup {r}

\* INSERT OR REPLACE: the rows in conflict on the primary key go, the row comes
insert_or_replace(rows, r) ==
    {x \in rows : CandleKey(x) # CandleKey(r)} \cup {r}

\* conn.executemany(sql, df_tuples), as far as its n-th tuple
RECURSIVE executemany(_, _, _, _, _)
executemany(rows, df, pair, interval, n) ==
    IF n = 0 THEN rows
    ELSE insert_or_replace(executemany(rows, df, pair, interval, n - 1),
                           [pair |-> pair, interval |-> interval,
                            open_time |-> df[n].open_time, ohlcv |-> df[n].ohlcv])

\* the body of the `with`: the upsert goes through ("saved"), or the statement
\* for row fail_at raises, which is logged: the connection is in autocommit
\* mode (isolation_level=None), so the rows before it stay
save_with_connection(rows, df, pair, interval, fail_at) ==
    IF fail_at > Len(df)
      THEN [val |-> "saved", candles |-> executemany(rows, df, pair, interval, Len(df))]
      ELSE [val |-> "swallowed",
            candles |-> executemany(rows, df, pair, interval, fail_at - 1)]

\* save_candle_data, looked at after `elapsed` inside pool.get: how it ends
\* ("return" for an empty frame, "raise" for the exception of get_connection,
\* which is raised outside the try), and the table afterwards
save_candle_data(rows, q, elapsed, df, pair, interval, fail_at) ==
    IF df = << >> THEN [val |-> "return", candles |-> rows]
    ELSE IF get_connection(q, elapsed) = "conn"
      THEN save_with_connection(rows, df, pair, interval, fail_at)
      ELSE [val |-> get_connection(q, elapsed), candles |-> rows]

\* get_connection_context: the connection taken goes back to the end of the queue
used_and_returned(q) == IF q = << >> THEN q ELSE Append(Tail(q), Head(q))

\* a thread calls save_candle_data(df, pair, interval)
SaveCandleData(c) ==
    /\ client_pc[c] = "idle"
    /\ \E df \in Series, pair \in StorePairs, interval \in Intervals :
       \E fail_at \in 1..(Len(df) + 1) :
         LET r == save_candle_data(candles, pool, 0, df, pair, interval, fail_at)
         IN /\ save_args' = [df |-> df, pair |-> pair, interval |-> interval]
            /\ candles' = r.candles
            /\ ret' = Ret("save_candle_data", r.val)
            /\ pool' = IF df = << >> THEN pool ELSE used_and_returned(pool)
            /\ client_pc' = [client_pc EXCEPT ![c] =
                                IF r.val = "block" THEN "saving" ELSE "idle"]
    /\ waited' = [waited EXCEPT ![c] = 0]
    /\ UNCHANGED <<max_connections, active_connections, loop_conns, client_conn, AUTO_TRADING,
                   configVars, loopVars, active_trades, killVars, healthVars,
                   monitorVars, unitVars>>

\* a save_candle_data blocked inside pool.get gets a connection or times out
SaveCandleDataResumes(c) ==
    /\ client_pc[c] = "saving"
    /\ get_connection(pool, waited[c]) # "block"
    /\ \E fail_at \in 1..(Len(save_args.df) + 1) :
         LET r == save_candle_data(candles, pool, waited[c], save_args.df,
                                   save_args.pair, save_args.interval, fail_at)
         IN /\ candles' = r.candles
            /\ ret' = Ret("save_candle_data", r.val)
    /\ pool' = used_and_returned(pool)
    /\ client_pc' = [client_pc EXCEPT ![c] = "idle"]
    /\ waited' = [waited EXCEPT ![c] = 0]
    /\ UNCHANGED <<max_connections, active_connections, loop_conns, client_conn, save_args,
                   AUTO_TRADING, configVars, loopVars, active_trades, killVars,
                   healthVars, monitorVars, unitVars>>

\* what a caller may ask get_candle_data for: a stored interval, one that has
\* no rows, and the default timeframe=None
NoneInterval   == "None"
QueryIntervals == Intervals \cup {"15m", NoneInterval}
QueryLimits    == 0..3

\* pd.to_datetime(open_time, unit='ms')
to_datetime(ms) == [epoch_ms |-> ms]

\* a row of the frame read_sql_query builds, open_time converted
FrameRow(x) == [pair |-> x.pair, interval |-> x.interval,
                open_time |-> to_datetime(x.open_time), ohlcv |-> x.ohlcv]

\* ORDER BY open_time DESC
RECURSIVE order_by_open_time_desc(_)
order_by_open_time_desc(rows) ==
    IF rows = {} THEN << >>
    ELSE LET top == CHOOSE x \in rows : \A y \in rows : y.open_time <= x.open_time
         IN <<top>> \o order_by_open_time_desc(rows \ {top})

\* df.sort_values('open_time').reset_index(drop=True)
RECURSIVE sort_values(_)
sort_values(df) ==
    IF df = << >> THEN << >>
    ELSE LET i == CHOOSE j \in 1..Len(df) :
                    \A k \in 1..Len(df) : df[j].open_time.epoch_ms <= df[k].open_time.epoch_ms
             others == [k \in 1..(Len(df) - 1) |-> IF k < i THEN df[k] ELSE df[k + 1]]
         IN <<df[i]>> \o sort_values(others)

\* SELECT * FROM candles WHERE pair = ? AND interval = ? ORDER BY open_time DESC
\* LIMIT ?: `interval = NULL` is true of no row
select_candles(rows, pair, timeframe, limit) ==
    LET matching == {x \in rows : x.pair = pair /\ timeframe # NoneInterval
                                               /\ x.interval = timeframe}
        ordered  == order_by_open_time_desc(matching)
        limited  == SubSeq(ordered, 1, Min(limit, Len(ordered)))
    IN [i \in 1..Len(limited) |-> FrameRow(limited[i])]

\* a plausible slip: the frame is returned as selected, newest first
get_candle_data_unsorted(rows, pair, limit, timeframe) ==
    select_candles(rows, pair, timeframe, limit)

\* DatabaseManager.get_candle_data, with a connection to be had
get_candle_data(rows, pair, limit, timeframe) ==
    sort_values(select_candles(rows, pair, timeframe, limit))

\* a thread calls get_candle_data(pair, limit, timeframe): with the pool empty
\* for the whole timeout get_connection raises
GetCandleData ==
    /\ \E pair \in StorePairs, limit \in QueryLimits, timeframe \in QueryIntervals :
         /\ query_call' = [pair |-> pair, limit |-> limit, interval |-> timeframe]
         /\ IF pool = << >>
              THEN /\ query_result' = << >>
                   /\ ret' = Ret("get_candle_data", "raise")
              ELSE /\ query_result' = get_candle_data(candles, pair, limit, timeframe)
                   /\ ret' = Ret("get_candle_data", "rows")
    /\ pool' = used_and_returned(pool)
    /\ UNCHANGED <<max_connections, active_connections, loop_conns, client_pc, client_conn,
                   waited,
                   storeVars, monitorVars, strategyVars, freshVars, logVars, AUTO_TRADING,
                   configVars, loopVars, active_trades, killVars, healthVars>>

-----------------------------------------------------------------------------
(* get_historical_data followed call by call: MockExchangeAPI *)

\* where the task is before and inside each database call of its fetch
BeforeDbCall == {"fetch", "generated", "saved"}
InDbCall     == {"cache_read", "saving", "rereading"}

\* the call that begins at a position: get_candle_data (line 62),
\* save_candle_data (line 92), get_candle_data (line 93)
DbCallAt(pc) ==
    IF pc = "fetch" THEN "cache_read"
    ELSE IF pc = "generated" THEN "saving"
    ELSE "rereading"

\* a database call of the head task's fetch enters its `with`: get_connection
\* is synchronous, so the thread stays in it until it has a connection or the
\* timeout has passed, and the exception ends the task
DbCallBegins ==
    /\ Alive /\ tasks # << >> /\ task_pc \in BeforeDbCall
    /\ IF get_connection(pool, TimeoutTicks) = "conn"
         THEN /\ loop_conns' = Append(loop_conns, Head(pool))
              /\ pool' = Tail(pool)
              /\ task_pc' = DbCallAt(task_pc)
              /\ ret' = Ret("get_connection", "conn")
              /\ UNCHANGED <<tasks, outcome, signals, freshness, evaluated, data_len,
                             loop_pc, running>>
         ELSE /\ task_exception
              /\ ret' = Ret("get_connection", "raise")
              /\ UNCHANGED <<pool, loop_conns>>
    /\ UNCHANGED <<max_connections, active_connections, client_pc, client_conn, waited,
                   storeVars, monitorVars, unitVars, AUTO_TRADING, configVars, tick, fanout,
                   pair_data, active_trades, killVars, healthVars>>

\* the call leaves its `with` and the connection goes back: a read raises, which
\* ends the task, or returns its frame; the cache read is followed by the
\* freshness check, and a fresh cache is what get_historical_data returns; the
\* save swallows what its body raises
DbCallEnds ==
    /\ Alive /\ tasks # << >> /\ task_pc \in InDbCall
    /\ \E how \in BodyEnds :
         /\ pool' = context_exit(pool, loop_conns[Len(loop_conns)], how)
         /\ IF how = "raise" /\ task_pc # "saving"
              THEN /\ task_exception
                   /\ ret' = Ret("get_candle_data", "raise")
              ELSE /\ IF task_pc = "cache_read"
                        THEN \E cached \in CachedReads :
                               /\ freshness' = cache_verdict(cached)
                               /\ task_pc' = IF cache_verdict(cached) = "fresh"
                                               THEN "fetched" ELSE "generated"
                        ELSE /\ task_pc' = IF task_pc = "saving" THEN "saved" ELSE "fetched"
                             /\ UNCHANGED freshness
                   /\ IF task_pc' = "fetched"
                        THEN \E len \in DataLens : data_len' = len
                        ELSE data_len' = data_len
                   /\ ret' = Ret("get_connection_context", how)
                   /\ UNCHANGED <<tasks, outcome, signals, evaluated, loop_pc, running>>
    /\ loop_conns' = SubSeq(loop_conns, 1, Len(loop_conns) - 1)
    /\ UNCHANGED <<max_connections, active_connections, client_pc, client_conn, waited,
                   storeVars, monitorVars, unitVars, AUTO_TRADING, configVars, tick, fanout,
                   pair_data, active_trades, killVars, healthVars>>

\* process_pair goes on with the frame get_historical_data returned
ProcessFetched ==
    /\ Alive /\ tasks # << >> /\ task_pc = "fetched"
    /\ ProcessFrame({data_len}, {freshness})
    /\ UNCHANGED <<sideVars, AUTO_TRADING, configVars, tick, fanout, active_trades,
                   killVars, healthVars>>

-----------------------------------------------------------------------------
\* the bot after construction, the candles table apart
EverythingButTheStore ==
    /\ AUTO_TRADING = "unset"
    /\ api_clients = {e \in Exchanges : e \in ACTIVE_EXCHANGES}
    /\ notification_manager \in BOOLEAN
    /\ talib \in BOOLEAN
    /\ running = TRUE
    /\ loop_pc = "top"
    /\ tick = 0
    /\ tasks = << >>
    /\ task_pc = "fetch"
    /\ signals = NoSignals
    /\ fanout = {}
    /\ outcome = [p \in Symbols |-> "pending"]
    /\ pair_data = {}
    /\ active_trades = EmptyTrades
    /\ trading_disabled = FALSE
    /\ kill_pc = "idle"
    /\ kill_pre = NoPre
    /\ api_failures = [p \in Symbols |-> 0]
    /\ pair_blacklist = {}
    /\ blacklist_events = [p \in Symbols |-> 0]
    /\ freshness = "none"
    /\ evaluated = << >>
    /\ data_len = NoLen
    /\ db_failures = 0
    /\ last_successful_cycle = 0
    /\ warned = FALSE
    /\ now = 0
    /\ save_args = NoSave
    /\ frame = NoFrame
    /\ enriched = [name \in StrategyNames |-> TRF_get_indicators(NoFrame)]
    /\ fresh_call = NoCall
    /\ fresh_report = NoReport
    /\ log_messages = << >>
    /\ log_calls = 0
    /\ query_call = NoQuery
    /\ query_result = << >>
    /\ ret = Ret("init", "")

\* a new database file: the table is created empty
BotConstructed ==
    /\ EverythingButTheStore
    /\ candles = {}

\* DatabaseManager builds its pool with the default max_connections
Init ==
    /\ BotConstructed
    /\ PoolConstructed(MaxConns, prewarm(MaxConns))

\* The control loop with the trading engine and the kill switch
Next ==
    \/ \E v \in {"True", "False"} : SetAutoTrading(v)
    \/ RunTick
    \/ GatherDone
    \/ SleepDone
    \/ ProcessPair
    \/ ExecuteTrades
    \/ Shutdown
    \/ EmergencyExit
    \/ NotifyReturns
    \/ NotifyRaises

Spec == Init /\ [][Next]_vars

\* The control loop with the health monitor
NextHealth ==
    \/ RunTick
    \/ GatherDone
    \/ SleepDone
    \/ ProcessPair
    \/ ExecuteTrades
    \/ Shutdown
    \/ \E p \in Symbols : RecordApiFailure(p)

\* the notifier and TA-Lib play no part in the health monitor
InitHealth == Init /\ ~notification_manager /\ talib

SpecHealth == InitHealth /\ [][NextHealth]_vars

\* The control loop with the blacklist and its periodic check
NextBlacklist ==
    \/ RunTick
    \/ GatherDone
    \/ SleepDone
    \/ ProcessPair
    \/ ExecuteTrades
    \/ Shutdown
    \/ \E p \in Symbols : BlacklistPair(p)
    \/ CheckBlacklist

SpecBlacklist == InitHealth /\ [][NextBlacklist]_vars

\* The health monitor's failure counters followed past the threshold
NextEvents ==
    \/ \E p \in Symbols : RecordApiFailureUpTo(p, MaxLateFailures)
    \/ CheckBlacklist

SpecEvents == InitHealth /\ [][NextEvents]_vars

\* The health monitor on its own, its methods called in any order as time passes
NextMonitor ==
    \/ \E p \in Symbols : RecordApiFailure(p)
    \/ RecordDbFailure
    \/ RecordSuccessfulCycle
    \/ CheckBlacklist
    \/ CheckProcessHealth
    \/ TimePasses

SpecMonitor == InitHealth /\ [][NextMonitor]_vars

\* The control loop as wall-clock time passes
NextWatch ==
    \/ RunTick
    \/ GatherDone
    \/ SleepDone
    \/ SleepLong
    \/ ProcessPair
    \/ ExecuteTrades
    \/ Shutdown

SpecWatch == InitHealth /\ [][NextWatch]_vars

\* The strategies on their own, with and without TA-Lib
InitStrategy == Init /\ ~notification_manager

NextStrategy ==
    \/ GetIndicators
    \/ \E name \in StrategyNames : StrategyCheckSignals(name)

SpecStrategy == InitStrategy /\ [][NextStrategy]_vars

\* The dashboard log on its own
NextLog ==
    \/ AddLog

SpecLog == InitHealth /\ [][NextLog]_vars

\* The freshness check on its own
NextFreshness ==
    \/ ValidateDataFreshness

SpecFreshness == InitHealth /\ [][NextFreshness]_vars

\* The candle store: the bot's thread saves while another thread may hold the
\* one connection that was created
Holder == 1
Saver  == 2

InitStore ==
    /\ BotConstructed /\ ~notification_manager /\ talib
    /\ PoolConstructed(MaxConns, 1)

NextStore ==
    \/ GetConnection(Holder)
    \/ ReturnConnection(Holder)
    \/ SaveCandleData(Saver)
    \/ SaveCandleDataResumes(Saver)
    \/ ClockTick

SpecStore == InitStore /\ [][NextStore]_vars

\* The control loop while another thread may hold the one connection
NextDb ==
    \/ RunTick
    \/ GatherDone
    \/ SleepDone
    \/ ProcessPair
    \/ ExecuteTrades
    \/ Shutdown
    \/ GetConnection(Holder)
    \/ ReturnConnection(Holder)

SpecDb == InitStore /\ [][NextDb]_vars

\* The candle store read by the bot's thread: the table holds whatever earlier
\* saves have left in it, at most one row per key
CandleRows == [pair : StorePairs, interval : Intervals, open_time : OpenTimes,
               ohlcv : Ohlcv]
Tables     == {t \in SUBSET CandleRows : \A x, y \in t : CandleKey(x) = CandleKey(y) => x = y}

InitQuery ==
    /\ EverythingButTheStore /\ ~notification_manager /\ talib
    /\ candles \in Tables
    /\ PoolConstructed(MaxConns, prewarm(MaxConns))

NextQuery ==
    \/ GetCandleData

SpecQuery == InitQuery /\ [][NextQuery]_vars

\* The control loop with the fetch followed call by call; its thread is the
\* pool's only user, and any number of the pre-warmed connections were created
InitFetch ==
    /\ BotConstructed /\ ~notification_manager /\ talib
    /\ \E n \in 0..prewarm(MaxConns) : PoolConstructed(MaxConns, n)

NextFetch ==
    \/ \E v \in {"True", "False"} : SetAutoTrading(v)
    \/ RunTick
    \/ GatherDone
    \/ SleepDone
    \/ DbCallBegins
    \/ DbCallEnds
    \/ ProcessFetched
    \/ ExecuteTrades

SpecFetch == InitFetch /\ [][NextFetch]_vars

\* The connection pool used only through get_connection_context, as the
\* database manager uses it
NextScoped ==
    \/ \E c \in Clients : GetConnection(c)
    \/ \E c \in Clients : GetConnectionResumes(c)
    \/ \E c \in Clients : ContextExit(c)
    \/ ClockTick

\* The connection pool on its own, under concurrent users: any max_connections,
\* and any number of the pre-warmed connections failing to be created
InitPool ==
    /\ BotConstructed /\ ~notification_manager /\ talib
    /\ \E maxc \in 1..MaxConns : \E n \in 0..prewarm(maxc) : PoolConstructed(maxc, n)

NextPool ==
    \/ \E c \in Clients : GetConnection(c)
    \/ \E c \in Clients : GetConnectionResumes(c)
    \/ \E c \in Clients : ReturnConnection(c)
    \/ ClockTick

SpecPool == InitPool /\ [][NextPool]_vars

SpecScoped == InitPool /\ [][NextScoped]_vars

-----------------------------------------------------------------------------
(* Properties of the trading engine and the kill switch *)

TaskOps == {"get_candle_data", "get_historical_data", "check_signals", "execute_trades",
            "process_pair"}
Trade(s) == [entry_price |-> s.price, direction |-> s.signal_type]
OpenKeys == {k \in Keys : active_trades[k] # NoTrade}

\* C1: a call of execute_trades whose key already holds a trade returns False
\* and leaves the whole map (so the stored entry_price and direction) as it
\* was; a call returns True only for a key that held no trade, and then stores
\* exactly the signal's price and direction under that key and nothing else.
C1_OneTradePerKey ==
    [][ret'.op = "execute_trades" =>
          LET k == SignalKey(signals)
          IN /\ active_trades[k] # NoTrade =>
                    ret'.val = "False" /\ active_trades' = active_trades
             /\ ret'.val = "True" =>
                    /\ active_trades[k] = NoTrade
                    /\ active_trades' = [active_trades EXCEPT ![k] = Trade(signals)]]_vars

\* the same instrument signalled again in the next tick, with auto-trading on:
\* refused, the first trade still there
C1_Witness ==
    /\ ret = Ret("execute_trades", "False")
    /\ AUTO_TRADING = "True"
    /\ tick = 2
    /\ OpenKeys # {}

\* C2 (as claimed): while the kill switch's trading_disabled flag is set there
\* is no active trade: nothing is opened after execute_emergency_exit.
C2_NoTradeWhileDisabled == trading_disabled => OpenKeys = {}

\* C3 (as claimed): when execute_emergency_exit reports failure, the
\* active-trade map and trading_disabled are as they were before the call.
C3_KillSwitchAtomic ==
    [][(kill_pc = "send_message" /\ ret' = Ret("execute_emergency_exit", "raise")) =>
          /\ active_trades' = kill_pre.trades
          /\ trading_disabled' = kill_pre.disabled]_vars

\* C4: a key goes from no trade to a trade only in a step of the task of that
\* instrument in the current tick, at execute_trades, with AUTO_TRADING on, with
\* the signal check_signals produced for that instrument, strategy and
\* exchange; with AUTO_TRADING off execute_trades returns False and the map is
\* unchanged.
C4_FlatToOpenGuard ==
    [][/\ \A k \in Keys :
            (active_trades[k] = NoTrade /\ active_trades'[k] # NoTrade) =>
                /\ AUTO_TRADING = "True"
                /\ ret'.op = "execute_trades"
                /\ tasks # << >> /\ task_pc = "execute"
                /\ Head(tasks).tick = tick
                /\ Head(tasks).symbol = k[3]
                /\ signals.signal_type \in {"long", "short"}
                /\ SignalKey(signals) = k
       /\ (ret'.op = "execute_trades" /\ AUTO_TRADING = "False") =>
                ret'.val = "False" /\ active_trades' = active_trades]_vars

\* a trade was opened earlier, and with auto-trading now off a signal for a
\* free key was refused
C4_Witness ==
    /\ ret = Ret("execute_trades", "False")
    /\ AUTO_TRADING = "False"
    /\ Cardinality(OpenKeys) = 1

-----------------------------------------------------------------------------
(* Properties of the health monitor and the control loop *)

\* C5: every instrument whose failure count is above 5 is blacklisted; a
\* fan-out never schedules a task for an instrument whose count is above 5; a
\* record_api_failure that leaves the count at 5 or less leaves the blacklist
\* as it was.
C5_BlacklistAboveThreshold ==
    [][/\ \A p \in Symbols :
            api_failures'[p] > BlacklistThreshold => is_pair_blacklisted(pair_blacklist', p)
       /\ tick' # tick =>
            \A i \in 1..Len(tasks') : api_failures[tasks'[i].symbol] <= BlacklistThreshold
       /\ \A p \in Symbols :
            (/\ ret'.op = "record_api_failure"
             /\ api_failures'[p] = api_failures[p] + 1
             /\ api_failures'[p] <= BlacklistThreshold)
                => pair_blacklist' = pair_blacklist]_vars

\* an instrument is over the threshold and the tick in progress left it out
C5_Witness ==
    \E p \in Symbols :
        /\ api_failures[p] > BlacklistThreshold
        /\ is_pair_blacklisted(pair_blacklist, p)
        /\ loop_pc = "gather" /\ fanout # {} /\ p \notin fanout

\* C6 (as claimed): a task step that raises increments that instrument's
\* failure counter by one.
C6_FailureCounted ==
    [][(tasks # << >> /\ ret'.op \in TaskOps /\ ret'.val = "raise") =>
          api_failures'[Head(tasks).symbol] = api_failures[Head(tasks).symbol] + 1]_vars

\* C7: a task step that raises ends that task only: the other tasks of the tick
\* stay scheduled, run keeps its position and `running`; gather returns only
\* when every task fanned out has ended; the loop ends only by shutdown.
C7_FailureIsolated ==
    [][/\ (tasks # << >> /\ ret'.op \in TaskOps /\ ret'.val = "raise") =>
            /\ tasks' = Tail(tasks)
            /\ outcome' = [outcome EXCEPT ![Head(tasks).symbol] = "raise"]
            /\ loop_pc' = loop_pc /\ running' = running
       /\ (loop_pc = "gather" /\ loop_pc' = "sleep") =>
            \A p \in fanout : outcome[p] # "pending"
       /\ loop_pc' = "exited" => ret'.op = "shutdown"]_vars

\* in the second tick one task raised, another one ended normally, and gather is
\* about to return
C7_Witness ==
    /\ tick = 2 /\ loop_pc = "gather" /\ tasks = << >>
    /\ \E p, q \in fanout : outcome[p] = "raise" /\ outcome[q] = "ok"

\* C8: every task in flight belongs to the current tick, and while run sleeps
\* or is about to fan out no task is in flight.
C8_NoTickOverlap ==
    /\ \A i \in 1..Len(tasks) : tasks[i].tick = tick
    /\ loop_pc \in {"sleep", "top"} => tasks = << >>
    /\ tasks # << >> => loop_pc = "gather"

\* the second tick's tasks are all in flight
C8_Witness ==
    /\ tick = 2 /\ loop_pc = "gather"
    /\ Len(tasks) = NumPairs

-----------------------------------------------------------------------------
(* Properties of the connection pool *)

IdleConns == {pool[i] : i \in 1..Len(pool)}
HeldConns == {client_conn[c] : c \in Held}
\* 3 pre-warmed connections and a maximum of 3
ThreeOfThree == max_connections = PrewarmCount /\ active_connections = PrewarmCount

\* C9: with 3 connections pre-warmed and a maximum of 3, a get_connection that
\* finds the pool empty (as it is while 3 are held) blocks and hands out
\* nothing; a get_connection ends with a connection only by taking one that
\* is idle in the pool, which a blocked caller does as soon as one has been
\* returned; it raises the timeout error only for a caller that has waited the
\* whole timeout with the pool still empty, and then hands out nothing.
C9_FourthAcquireBlocks ==
    [][(ThreeOfThree /\ ret'.op = "get_connection") =>
          /\ (Cardinality(Held) = PrewarmCount) => pool = << >>
          /\ (/\ pool = << >>
              /\ \E c \in Clients : client_pc[c] = "idle" /\ client_pc'[c] # "idle")
                => ret'.val = "block"
          /\ ret'.val = "block" =>
                /\ pool = << >> /\ pool' = pool /\ client_conn' = client_conn
                /\ \E c \in Clients : client_pc[c] = "idle" /\ client_pc'[c] = "waiting"
          /\ ret'.val = "conn" =>
                /\ pool # << >> /\ pool' = Tail(pool)
                /\ \E c \in Clients :
                      /\ client_pc[c] \in {"idle", "waiting"} /\ client_pc'[c] = "holding"
                      /\ client_conn' = [client_conn EXCEPT ![c] = Head(pool)]
                      /\ Head(pool) \notin HeldConns
          /\ ret'.val = "raise" =>
                /\ pool = << >> /\ pool' = pool /\ client_conn' = client_conn
                /\ \E c \in Clients :
                      /\ client_pc[c] = "waiting" /\ waited[c] = TimeoutTicks
                      /\ client_pc'[c] = "idle"]_vars

\* all 3 connections are held and the 4th caller has just timed out
C9_Witness ==
    /\ ThreeOfThree
    /\ Cardinality(Held) = PrewarmCount
    /\ ret = Ret("get_connection", "raise")

\* C10 (as claimed): the connections that exist, idle plus held, number
\* min(3, max_connections).
C10_PoolSizeIsPrewarm ==
    Len(pool) + Cardinality(Held) = Min(PrewarmCount, max_connections)

PoolSizeFixed ==
    /\ Len(pool) + Cardinality(Held) = active_connections
    /\ Cardinality(IdleConns) = Len(pool)
    /\ Cardinality(HeldConns) = Cardinality(Held)
    /\ IdleConns \cap HeldConns = {}
    /\ active_connections <= Min(PrewarmCount, max_connections)

\* C10 (amended): the connections that exist, idle plus held, number what
\* construction created, which is at most min(3, max_connections), and that
\* number never changes, whatever max_connections is and whoever is blocked.
C10_PoolNeverGrows ==
    [][/\ PoolSizeFixed /\ PoolSizeFixed'
       /\ active_connections' = active_connections
       /\ max_connections' = max_connections
       /\ Len(pool') + Cardinality(Held') = Len(pool) + Cardinality(Held)]_vars

\* max_connections is above 3, every connection is held, and a caller is blocked
C10_Witness ==
    /\ max_connections > PrewarmCount
    /\ active_connections = PrewarmCount
    /\ pool = << >> /\ Cardinality(Held) = PrewarmCount
    /\ \E c \in Clients : client_pc[c] = "waiting" /\ waited[c] > 0

-----------------------------------------------------------------------------
(* Properties of the health monitor over time *)

\* C13: once an instrument is blacklisted it stays blacklisted, whatever the
\* health monitor or the scheduler does next (check_blacklist included), and no
\* later fan-out schedules a task for it.
C13_BlacklistIsForever ==
    [][/\ pair_blacklist \subseteq pair_blacklist'
       /\ tick' # tick =>
            \A i \in 1..Len(tasks') :
                ~is_pair_blacklisted(pair_blacklist, tasks'[i].symbol)]_vars

\* check_blacklist has just run during the second tick, whose fan-out left the
\* blacklisted instrument out
C13_Witness ==
    \E p \in Symbols :
        /\ is_pair_blacklisted(pair_blacklist, p)
        /\ ret.op = "check_blacklist"
        /\ tick = 2 /\ fanout # {} /\ p \notin fanout

\* C14: no call of the health monitor lowers an instrument's failure count or
\* the db-failure count, and record_successful_cycle leaves the failure counts
\* and the blacklist as they were.
C14_CountersMonotonic ==
    [][/\ \A p \in Symbols : api_failures'[p] >= api_failures[p]
       /\ db_failures' >= db_failures
       /\ ret'.op = "record_successful_cycle" =>
            /\ api_failures' = api_failures
            /\ db_failures' = db_failures
            /\ pair_blacklist' = pair_blacklist]_vars

\* a successful cycle recorded at a later time, with failures of both kinds and
\* a blacklisted instrument on record
C14_Witness ==
    /\ ret.op = "record_successful_cycle"
    /\ last_successful_cycle > 0
    /\ db_failures > 0
    /\ pair_blacklist # {}

\* C15 (as claimed): when gather returns in a tick in which some task ended
\* without an error, last_successful_cycle is a time within that tick (time
\* passes only while the loop sleeps, so that is the present time).
C15_SuccessIsStamped ==
    [][(/\ loop_pc = "gather" /\ loop_pc' = "sleep"
        /\ \E p \in fanout : outcome[p] = "ok")
          => last_successful_cycle' >= now]_vars

\* the liveness condition of check_process_health
NoRecentSuccess == check_process_health(now, last_successful_cycle, REFRESH_INTERVAL)

\* C16 (as claimed): the control loop reaches check_process_health: a pass of
\* the loop made while no cycle has succeeded for more than 5 refresh intervals
\* has logged the warning by the time it goes to sleep.
C16_LoopWarnsWhenStuck ==
    [][(loop_pc = "gather" /\ loop_pc' = "sleep" /\ NoRecentSuccess) => warned']_vars

-----------------------------------------------------------------------------
(* Properties of shutdown, of the freshness check and of the strategy order *)

\* C17 (as claimed): shutdown drains: the step that takes the shutdown signal
\* cancels no task that was fanned out, and the loop ends only when no task is
\* in flight.
C17_ShutdownDrains ==
    [][/\ ret'.op = "shutdown" => tasks' = tasks
       /\ (loop_pc # "exited" /\ loop_pc' = "exited") => tasks = << >>]_vars

\* C18 (as claimed): a task whose freshness check failed has no signal, opens no
\* trade and does not raise.
C18_StaleMeansNoSignal ==
    [][/\ freshness' = "stale" => signals' = NoSignals
       /\ (freshness = "stale" /\ ret'.op = "execute_trades") =>
            active_trades' = active_trades /\ ret'.val # "raise"]_vars

\* C20: when check_signals returns a signal, the strategies it evaluated are the
\* first ones of the fixed order, up to and including the one the signal names
\* as trigger_strategy, and no later one; execute_trades runs at most once per
\* instrument and tick: for the task at the head, which then ends, the only one
\* of its instrument in the tick, and with that instrument's signal.
C20_FirstSignalWins ==
    [][/\ (ret'.op = "check_signals" /\ ret'.val = "signal") =>
            /\ evaluated' # << >>
            /\ evaluated' = SubSeq(strategies, 1, Len(evaluated'))
            /\ signals'.trigger_strategy = evaluated'[Len(evaluated')]
       /\ ret'.op = "execute_trades" =>
            /\ tasks' = Tail(tasks)
            /\ outcome[Head(tasks).symbol] = "pending"
            /\ \A i \in 2..Len(tasks) : tasks[i].symbol # Head(tasks).symbol
            /\ signals.pair = Head(tasks).symbol]_vars

\* the first strategy signalled, the second one was not evaluated, and the
\* signal is on its way to execute_trades
C20_Witness ==
    /\ ret = Ret("check_signals", "signal")
    /\ task_pc = "execute"
    /\ evaluated = <<strategies[1]>>
    /\ Len(strategies) > 1
    /\ signals.trigger_strategy = strategies[1]

-----------------------------------------------------------------------------
(* Properties of the candle store *)

\* the rows of table `rows` under the key of the i-th row of the saved frame
RowsOfKey(rows, a, i) ==
    {x \in rows : CandleKey(x) = <<a.pair, a.interval, a.df[i].open_time>>}

SavedKeys(a) == {<<a.pair, a.interval, a.df[i].open_time>> : i \in 1..Len(a.df)}

\* the last row of the frame with the open_time of its i-th row
LastWrite(a, i) ==
    a.df[CHOOSE j \in 1..Len(a.df) :
            /\ a.df[j].open_time = a.df[i].open_time
            /\ \A k \in (j + 1)..Len(a.df) : a.df[k].open_time # a.df[i].open_time]

\* C11: the table never holds two rows with one key; after a save that went
\* through, every key of the frame has exactly one row, with the values of the
\* last write for that key, the rows with other keys are as they were, and
\* saving the same frame again would change nothing.
C11_UpsertReplaces ==
    [][/\ \A x, y \in candles' : CandleKey(x) = CandleKey(y) => x = y
       /\ (ret'.op = "save_candle_data" /\ ret'.val = "saved") =>
            LET a == save_args'
            IN /\ \A i \in 1..Len(a.df) :
                    RowsOfKey(candles', a, i) =
                        {[pair |-> a.pair, interval |-> a.interval,
                          open_time |-> a.df[i].open_time,
                          ohlcv |-> LastWrite(a, i).ohlcv]}
               /\ {x \in candles' : CandleKey(x) \notin SavedKeys(a)} =
                  {x \in candles : CandleKey(x) \notin SavedKeys(a)}
               /\ executemany(candles', a.df, a.pair, a.interval, Len(a.df)) = candles'
       ]_vars

\* a frame that writes one key twice with different values has been saved into
\* a table that holds other keys and an older row of every key
C11_Witness ==
    /\ ret = Ret("save_candle_data", "saved")
    /\ Len(save_args.df) = 2
    /\ save_args.df[1].open_time = save_args.df[2].open_time
    /\ save_args.df[1].ohlcv # save_args.df[2].ohlcv
    /\ Cardinality(candles) = Cardinality(StorePairs \X Intervals \X OpenTimes)

\* C12 (as claimed): save_candle_data never raises.
C12_SaveNeverRaises ==
    [][ret'.op = "save_candle_data" => ret'.val # "raise"]_vars

\* C19 (as claimed): a pool timeout in a task adds one to db_failures.
C19_PoolTimeoutRecorded ==
    [][(tasks # << >> /\ ret' = Ret("get_candle_data", "raise")) =>
          db_failures' = db_failures + 1]_vars

-----------------------------------------------------------------------------
(* Properties of the components on their own *)

\* the series as get_indicators returns it when it computes nothing
Unenriched(df) ==
    [len |-> df.len, close |-> df.close, has_ind |-> FALSE, ema200 |-> 0, cci1 |-> 0]

\* C21: for a series shorter than the longest lookback (200), get_indicators
\* returns the series without indicator values, and check_signals on its latest
\* row returns no signal: it does not raise and returns neither long nor short.
C21_ShortSeriesNoSignal ==
    [][/\ (ret'.op = "get_indicators" /\ frame'.len < ema200_period) =>
            \A name \in StrategyNames : enriched'[name] = Unenriched(frame')
       /\ (ret'.op = "strategy_check_signals" /\ frame.len < ema200_period) =>
            ret'.val = "None"]_vars

\* the main strategy was asked about a series of 199 candles whose latest values
\* would have meant long
C21_Witness ==
    /\ ret = Ret("strategy_check_signals", "None")
    /\ evaluated = <<"main_strategy">>
    /\ talib
    /\ frame.len = ema200_period - 1
    /\ frame.close > frame.ema_in /\ frame.cci_in > cci_long_level

\* the max-age a call works with
EffectiveMaxAge(c) ==
    IF c.max_age_seconds = NoneAge THEN MAX_DATA_AGE_SECONDS ELSE c.max_age_seconds

\* C22: with the check enabled and non-empty data whose newest candle is at T,
\* a call at T + a reports is_fresh exactly when a <= max-age (so with max-age
\* 300: false at 301, true at 100 and at 300), whatever the call before it
\* reported, and the call changes nothing of the program's state.
C22_FreshIffWithinMaxAge ==
    [][ret'.op = "validate_data_freshness" =>
          LET c == fresh_call'
              r == fresh_report'
          IN /\ (c.enabled /\ c.data # << >>) =>
                   LET a == c.current_time - c.data[Len(c.data)]
                   IN /\ r.is_fresh <=> a <= EffectiveMaxAge(c)
                      /\ EffectiveMaxAge(c) = 300 =>
                            /\ a = 301 => ~r.is_fresh
                            /\ a \in {100, 300} => r.is_fresh
             /\ UNCHANGED <<poolVars, storeVars, monitorVars, healthVars, loopVars,
                            active_trades, frame, enriched>>]_vars

\* a call exactly 300 s after the newest candle, with the default max-age,
\* reported fresh
C22_Witness ==
    /\ ret.op = "validate_data_freshness"
    /\ fresh_call.enabled /\ fresh_call.data = <<0, 300>>
    /\ fresh_call.current_time = 600
    /\ fresh_call.max_age_seconds = NoneAge
    /\ fresh_report.is_fresh

\* the steps of normal cycle processing
CycleOps == TaskOps \cup {"run"}

\* C23: normal cycle processing never closes or changes a trade: a step of run,
\* process_pair, check_signals or execute_trades leaves every existing entry of
\* the active-trade map as it was, and an entry goes away only in a step of
\* execute_emergency_exit.
C23_OnlyEmergencyExitCloses ==
    [][\A k \in Keys :
          active_trades[k] # NoTrade =>
              /\ ret'.op \in CycleOps => active_trades'[k] = active_trades[k]
              /\ active_trades'[k] # active_trades[k] =>
                    /\ ret'.op = "execute_emergency_exit"
                    /\ active_trades'[k] = NoTrade]_vars

\* check_signals has produced, for an instrument that holds a trade, a signal in
\* the other direction, on its way to execute_trades with auto-trading on
C23_Witness ==
    /\ ret = Ret("check_signals", "signal")
    /\ AUTO_TRADING = "True"
    /\ active_trades[SignalKey(signals)] # NoTrade
    /\ active_trades[SignalKey(signals)].direction # signals.signal_type

\* C24: starting from an empty buffer, after n add_log calls log_messages holds
\* min(n, 10) entries, so never more than 10; the message just added is at
\* index 0 and the entries that were there follow it in their order, so the
\* entry dropped at the limit is the oldest.
C24_LogBoundedNewestFirst ==
    [][/\ Len(log_messages') = Min(log_calls', LogLimit)
       /\ Len(log_messages') <= LogLimit
       /\ ret'.op = "add_log" =>
            /\ log_messages'[1].message = ret'.val
            /\ \A i \in 2..Len(log_messages') : log_messages'[i] = log_messages[i - 1]]_vars

\* an add_log beyond the limit has dropped an old "b" and put an "a" in front
C24_Witness ==
    /\ ret = Ret("add_log", "a")
    /\ log_calls > LogLimit
    /\ Len(log_messages) = LogLimit
    /\ log_messages[1].message = "a"
    /\ \A i \in 2..Len(log_messages) : log_messages[i].message = "b"

\* the stored rows a query is about
Stored(c) == {x \in candles : x.pair = c.pair /\ x.interval = c.interval}

\* C25: get_candle_data(instrument, limit, interval), for a limit of 0 or more,
\* returns min(limit, stored) rows, each a stored row of that instrument and
\* interval, in strictly ascending open_time order, every stored row left out
\* being older than every row returned; the table is not changed.
C25_QueryNewestAscending ==
    [][(ret'.op = "get_candle_data" /\ ret'.val = "rows") =>
          LET c == query_call'
              r == query_result'
          IN /\ Len(r) = Min(c.limit, Cardinality(Stored(c)))
             /\ \A i \in 1..Len(r) : \E x \in Stored(c) : r[i] = FrameRow(x)
             /\ \A i, j \in 1..Len(r) :
                    i < j => r[i].open_time.epoch_ms < r[j].open_time.epoch_ms
             /\ \A x \in Stored(c) :
                    (\A i \in 1..Len(r) : r[i] # FrameRow(x)) =>
                        \A i \in 1..Len(r) : x.open_time < r[i].open_time.epoch_ms
             /\ candles' = candles]_vars

\* with both instruments stored, a query with limit 1 returned the newer of one
\* instrument's two rows
C25_Witness ==
    /\ ret = Ret("get_candle_data", "rows")
    /\ query_call.limit = 1
    /\ Cardinality(Stored(query_call)) = 2
    /\ Cardinality(candles) = 4
    /\ Len(query_result) = 1
    /\ query_result[1].open_time = to_datetime(2)

\* no `with get_connection_context()` is in progress
NoScopedUse == \A c \in Clients : client_pc[c] = "idle"

\* C26: when the body of a scoped use ends, normally or by raising, the
\* connection it held goes back to the pool; idle plus held is always the number
\* created, no connection is idle and held or held twice, and with no scoped
\* use in progress every connection created is idle.
C26_ScopedUseGivesBack ==
    [][/\ ret'.op = "get_connection_context" =>
            \E c \in Clients :
                /\ client_conn[c] # NoConn /\ client_conn'[c] = NoConn
                /\ pool' = Append(pool, client_conn[c])
       /\ PoolSizeFixed'
       /\ NoScopedUse' => Len(pool') = active_connections']_vars

\* the last of three scoped uses has ended by raising, and all three connections
\* are idle again, in another order than at construction
C26_Witness ==
    /\ ret = Ret("get_connection_context", "raise")
    /\ NoScopedUse
    /\ active_connections = PrewarmCount
    /\ Len(pool) = PrewarmCount
    /\ pool[1] = PrewarmCount

\* C27: the tasks of a tick do not interleave: a task leaves the queue only
\* from its head, and while the head task is between its fetch and its end no
\* other task becomes the running one; execute_trades gets the signal of the
\* task that runs; the control loop's thread never holds more than one
\* connection; and with at least one connection created no database call of a
\* task times out.
C27_TasksDoNotInterleave ==
    [][/\ loop_pc = "gather" =>
            tasks' = tasks \/ (tasks # << >> /\ tasks' = Tail(tasks))
       /\ (tasks # << >> /\ task_pc # "fetch") =>
            \/ tasks' = tasks
            \/ tasks' = Tail(tasks) /\ task_pc' = "fetch" /\ loop_conns' = << >>
       /\ ret'.op = "execute_trades" => signals.pair = Head(tasks).symbol
       /\ Len(loop_conns') <= 1
       /\ active_connections >= 1 => ret' # Ret("get_connection", "raise")]_vars

\* a later task of the tick is inside its third database call while an earlier
\* task of the tick has opened a trade
C27_Witness ==
    /\ loop_pc = "gather"
    /\ task_pc = "rereading"
    /\ Len(loop_conns) = 1
    /\ Len(tasks) < Cardinality(fanout)
    /\ OpenKeys # {}
    /\ \A k \in OpenKeys : k[3] # Head(tasks).symbol

\* C28: the blacklisting of an instrument is logged at most once: a
\* record_api_failure adds one to one instrument's counter; the one that takes
\* the counter from 5 to 6 puts the instrument on the blacklist and logs it;
\* one that finds the counter above 5 leaves the blacklist and the events as
\* they were.
C28_BlacklistedLoggedOnce ==
    [][/\ \A p \in Symbols : blacklist_events'[p] <= 1
       /\ ret'.op = "record_api_failure" =>
            \E p \in Symbols :
                /\ api_failures' = [api_failures EXCEPT ![p] = @ + 1]
                /\ api_failures[p] = BlacklistThreshold =>
                      /\ ~is_pair_blacklisted(pair_blacklist, p)
                      /\ is_pair_blacklisted(pair_blacklist', p)
                      /\ blacklist_events' = [blacklist_events EXCEPT ![p] = @ + 1]
                /\ api_failures[p] > BlacklistThreshold =>
                      /\ pair_blacklist' = pair_blacklist
                      /\ blacklist_events' = blacklist_events]_vars

\* an instrument has failed twice more since it was blacklisted, and its
\* blacklisting has been logged once
C28_Witness ==
    \E p \in Symbols :
        /\ ret.op = "record_api_failure"
        /\ api_failures[p] = BlacklistThreshold + 3
        /\ is_pair_blacklisted(pair_blacklist, p)
        /\ blacklist_events[p] = 1

\* C29: a task whose fetch returned an empty series or fewer than
\* MIN_CANDLES_FOR_TRADING candles ends at once and without an error: no
\* strategy is evaluated and no signal produced, and the active-trade map, the
\* display's pair data and the health state stay as they were.
C29_ShortSeriesEndsCycle ==
    [][(/\ tasks # << >> /\ task_pc = "fetched"
        /\ (data_len = 0 \/ data_len < MIN_CANDLES_FOR_TRADING)
        /\ ret'.op \in TaskOps) =>
          /\ ret' = Ret("process_pair", "short_data")
          /\ tasks' = Tail(tasks)
          /\ outcome' = [outcome EXCEPT ![Head(tasks).symbol] = "ok"]
          /\ signals' = NoSignals /\ evaluated' = << >>
          /\ active_trades' = active_trades
          /\ pair_data' = pair_data
          /\ UNCHANGED <<healthVars, monitorVars>>]_vars

\* a task has just ended on a short series, after another task of the tick
\* opened a trade; the instrument of the short series has no pair data
C29_Witness ==
    /\ ret = Ret("process_pair", "short_data")
    /\ OpenKeys # {}
    /\ \E p \in fanout : outcome[p] = "ok" /\ p \notin pair_data

====
